---- MODULE Spec2Model ----
(***************************************************************************)
(* The EDA & visualization agent (src/src/agents/data_visualization_agent  *)
(* .py) and the retrieval pipeline behind it (src/src/pipeline/            *)
(* rag_pipeline.py) as a state machine: one agent, any number of run()     *)
(* invocations one after the other, each walking the compiled LangGraph    *)
(* workflow node by node.                                                  *)
(*                                                                         *)
(* A dataset is the sequence of its columns; a column is named by its      *)
(* position and carries the dtype pandas.read_csv gave it and whether      *)
(* pd.to_datetime accepts all its values.  A text is a sequence of         *)
(* characters, so that str.strip() is computed and not assumed.            *)
(*                                                                         *)
(* The plot steps append to state["visualizations"] in place; the list is  *)
(* the one the graph's channel holds, so the records stay in the workflow  *)
(* state and reach the result.  `written`, `llmCalls`, `appended` and      *)
(* `trace` record what the run in progress (or just ended) has done; the   *)
(* program never reads static/plots, so older files there are left out.    *)
(***************************************************************************)
EXTENDS Integers, Sequences, FiniteSets, TLC

\* Largest number of columns of a dataset the model enumerates.
MaxCols == 3

(***************************************************************************)
(* Values                                                                  *)
(***************************************************************************)

\* Python's {} and None.
EmptyDict == <<>>
None == "None"

\* `if not d` for a dict d.
IsEmptyDict(d) == DOMAIN d = {}

\* The dtypes read_csv infers for a column (float64 behaves as int64 in every
\* place this program looks at a dtype, and is left out of the inputs).
CsvDTypes == {"int64", "bool", "object"}

\* A column: its dtype and, for an object column, whether pd.to_datetime
\* parses every value of it.
Columns ==
    {c \in [dtype : CsvDTypes, as_datetime : BOOLEAN] :
        c.as_datetime => c.dtype = "object"}

\* The contents a CSV file can have: 0..MaxCols columns.
Datasets == UNION {[1..n -> Columns] : n \in 0..MaxCols}

\* The row counts a content can come with: none or some.  An empty file has
\* no rows; a file with a header and no rows gives object columns only, each
\* of which pd.to_datetime accepts (there is no value to reject).
RowCounts(d) ==
    IF d = <<>> THEN {0}
    ELSE IF \A i \in DOMAIN d : d[i].dtype = "object" /\ d[i].as_datetime
    THEN {0, 1} ELSE {1}

\* The paths run() may be given: one that is no file, and one per content
\* and row count.
Paths ==
    {[isfile |-> FALSE, content |-> <<>>, rows |-> 0]}
        \cup UNION {{[isfile |-> TRUE, content |-> d, rows |-> r] :
                        r \in RowCounts(d)} : d \in Datasets}

\* The texts a language-model response may carry.
Whitespace == {" ", "\n"}
LLMTexts == {<<>>, <<" ">>, <<"a">>, <<" ", "a", "\n">>}

(***************************************************************************)
(* Pure functions                                                          *)
(***************************************************************************)

RECURSIVE LStrip(_)
LStrip(s) ==
    IF s = <<>> THEN s
    ELSE IF Head(s) \in Whitespace THEN LStrip(Tail(s)) ELSE s

RECURSIVE RStrip(_)
RStrip(s) ==
    IF s = <<>> THEN s
    ELSE IF s[Len(s)] \in Whitespace THEN RStrip(SubSeq(s, 1, Len(s) - 1)) ELSE s

\* str.strip()
strip(s) == RStrip(LStrip(s))

\* The set of the elements of a sequence.
Range(s) == {s[i] : i \in DOMAIN s}

\* Whether a dtype belongs to a select_dtypes class.
DTypeIn(dtype, class) ==
    CASE class = "number" -> dtype \in {"int64", "float64"}
      [] class = "object" -> dtype = "object"
      [] class = "category" -> dtype = "category"
      [] OTHER -> FALSE

\* df.select_dtypes(include=...).columns, in column order.
RECURSIVE SelectFrom(_, _, _)
SelectFrom(df, include, i) ==
    IF i > Len(df) THEN <<>>
    ELSE (IF \E class \in include : DTypeIn(df[i].dtype, class)
          THEN <<i>> ELSE <<>>) \o SelectFrom(df, include, i + 1)

select_dtypes(df, include) == SelectFrom(df, include, 1)

\* [col for col in cols if keep(col)]
RECURSIVE Filter(_, _)
Filter(cols, keep) ==
    IF cols = <<>> THEN <<>>
    ELSE (IF Head(cols) \in keep THEN <<Head(cols)>> ELSE <<>>)
            \o Filter(Tail(cols), keep)

\* The object columns pd.to_datetime accepts, in column order.
DatetimeCols(df) ==
    Filter(select_dtypes(df, {"object"}),
           {i \in DOMAIN df : df[i].as_datetime})

\* Faulty variant: the categorical list without the datetime columns taken out.
CategoricalCols_keep_datetime(df, datetime_cols) ==
    select_dtypes(df, {"object", "category"})

\* The categorical list of the profiler: which columns the datetime pass
\* removes from the object/category columns.
CategoricalCols(df, datetime_cols) ==
    Filter(select_dtypes(df, {"object", "category"}),
           DOMAIN df \ Range(datetime_cols))

\* The dict _profile_data_for_plotting returns.
profile_data_for_plotting(df) ==
    [numerical_cols |-> select_dtypes(df, {"number"}),
     categorical_cols |-> CategoricalCols(df, DatetimeCols(df)),
     datetime_cols |-> DatetimeCols(df)]

\* Faulty variant: run() without its path check.
isfile_unchecked(p) == TRUE

\* os.path.isfile(file_path)
isfile(p) == p.isfile

\* pd.read_csv raises EmptyDataError on a file with no columns.
CanLoad(content) == Len(content) > 0

\* The reducer of each AgentState channel: operator.add for the two
\* annotated lists, overwrite for the others.
Reduce(key, old, new) ==
    IF key \in {"insights", "visualizations"} THEN old \o new ELSE new

\* A node's returned dict merged into the workflow state.
Merge(s, update) ==
    [k \in DOMAIN s \cup DOMAIN update |->
        IF k \notin DOMAIN update THEN s[k]
        ELSE IF k \notin DOMAIN s THEN update[k]
        ELSE Reduce(k, s[k], update[k])]

\* dict.get(key, default)
Get(d, key, default) == IF key \in DOMAIN d THEN d[key] ELSE default

\* Faulty variant: _generate_caption without its empty-context return.
generate_caption_unguarded(context, text) ==
    [ret |-> [visualizations |->
                 <<[plot_type |-> Get(context, "plot_type", "chart"),
                    details |-> Get(context, "details", <<"the dataset">>),
                    caption |-> strip(text)]>>,
              current_plot_context |-> EmptyDict],
     calls |-> 1]

\* _generate_caption on a plot context and the text the model answers with:
\* the dict it returns and the number of model calls it makes.
generate_caption(context, text) ==
    IF IsEmptyDict(context)
    THEN [ret |-> EmptyDict, calls |-> 0]
    ELSE [ret |-> [visualizations |->
                      <<[plot_type |-> Get(context, "plot_type", "chart"),
                         details |-> Get(context, "details", <<"the dataset">>),
                         caption |-> strip(text)]>>,
                   current_plot_context |-> EmptyDict],
          calls |-> 1]

\* Faulty variant: get_retriever building whatever is at the path.
NeedsBuild_always(exists) == TRUE

\* os.path.exists(chroma_db_path) decides whether get_retriever builds.
NeedsBuild(exists) == ~exists

\* Faulty variant: the graph with the categorical step left unconnected.
Edge_skip_categorical(node) ==
    CASE node = "profile_data" -> "get_contextual_insights"
      [] node = "get_contextual_insights" -> "plot_univariate_numerical"
      [] node = "plot_univariate_numerical" -> "plot_correlation_heatmap"
      [] node = "plot_univariate_categorical" -> "plot_correlation_heatmap"
      [] node = "plot_correlation_heatmap" -> "generate_caption_for_heatmap"
      [] node = "generate_caption_for_heatmap" -> "END"

\* The edges of the compiled graph.
Edge(node) ==
    CASE node = "profile_data" -> "get_contextual_insights"
      [] node = "get_contextual_insights" -> "plot_univariate_numerical"
      [] node = "plot_univariate_numerical" -> "plot_univariate_categorical"
      [] node = "plot_univariate_categorical" -> "plot_correlation_heatmap"
      [] node = "plot_correlation_heatmap" -> "generate_caption_for_heatmap"
      [] node = "generate_caption_for_heatmap" -> "END"

EntryPoint == "profile_data"

\* The plot context each plot step hands to _generate_caption.
NumericalContext(col) ==
    [plot_type |-> "Histogram and Box Plot",
     details |-> <<"the numerical column", col>>]
CategoricalContext(col) ==
    [plot_type |-> "Bar Chart",
     details |-> <<"the categorical column", col>>]
HeatmapContext ==
    [plot_type |-> "Correlation Heatmap",
     details |-> <<"all numerical features">>]

\* The record each plot step appends.
NumericalRecord(col, caption) ==
    [title |-> <<"Distribution of", col>>,
     path |-> <<"hist_box", col>>,
     description |-> caption]
CategoricalRecord(col, caption) ==
    [title |-> <<"Frequency of", col>>,
     path |-> <<"countplot", col>>,
     description |-> caption]
HeatmapRecord(caption) ==
    [title |-> <<"Correlation Heatmap">>,
     path |-> <<"correlation_heatmap">>,
     description |-> caption]

\* The context and the record of a univariate plot step.
PlotContext(kind, col) ==
    IF kind = "numerical" THEN NumericalContext(col) ELSE CategoricalContext(col)
PlotRecord(kind, col, caption) ==
    IF kind = "numerical" THEN NumericalRecord(col, caption)
    ELSE CategoricalRecord(col, caption)

\* Faulty variant: a plot step that renders and sets the context, and leaves
\* the caption to a later node.
plot_events_deferred(file) ==
    <<(<<"render", file>>), (<<"pending", file>>)>>

\* What a plot step does for one artifact, in the order of its code: render
\* and save the file, set the plot context in the dict it hands to
\* _generate_caption, get the caption back, append the record.  When
\* llm.invoke raises, only the first two have happened.
plot_events(file) ==
    <<(<<"render", file>>), (<<"pending", file>>), (<<"caption", file>>),
      (<<"append", file>>)>>

\* Faulty variant: the correlation step's column test off by one.
HeatmapApplies_off_by_one(cols) == ~(Len(cols) < 1)

\* The correlation step plots only from two numerical columns on.
HeatmapApplies(cols) == ~(Len(cols) < 2)

(***************************************************************************)
(* State                                                                   *)
(***************************************************************************)
VARIABLES
    pc,           \* where the agent is: "idle", inside run(), a graph node,
                  \* "END", or the outcome of the last run
    file_path,    \* the path the current run() was called with
    df,           \* the dataset run() loaded (line 301)
    state,        \* the AgentState threaded through the graph
    idx,          \* columns a plot step's loop has finished
    result,       \* what the last run() returned
    error,        \* what the last run() raised
    indexExists,  \* something exists at chroma_db_path
    builds,       \* completed _build_vector_db calls, over all runs
    buildInvoked, \* this run called _build_vector_db
    written,      \* files this run saved under static/plots
    llmCalls,     \* llm.invoke calls of this run
    appended,     \* records this run appended to visualizations
    trace,        \* graph nodes this run entered, in order
    log,          \* what the plot steps of this run did, in order
    earlier       \* how the latest earlier run that appended a record ended

vars == <<pc, file_path, df, state, idx, result, error, indexExists, builds,
          buildInvoked, written, llmCalls, appended, trace, log, earlier>>

Nodes ==
    {"profile_data", "get_contextual_insights", "plot_univariate_numerical",
     "plot_univariate_categorical", "plot_correlation_heatmap",
     "generate_caption_for_heatmap"}

Init ==
    /\ pc = "idle"
    /\ file_path = [isfile |-> FALSE, content |-> <<>>, rows |-> 0]
    /\ df = <<>>
    /\ state = EmptyDict
    /\ idx = 0
    /\ result = EmptyDict
    /\ error = None
    /\ indexExists \in BOOLEAN
    /\ builds = 0
    /\ buildInvoked = FALSE
    /\ written = {}
    /\ llmCalls = 0
    /\ appended = 0
    /\ trace = <<>>
    /\ log = <<>>
    /\ earlier = None

\* An exception leaves run(): the workflow state is dropped, nothing is
\* returned.
Raise(err) ==
    /\ pc' = "raised"
    /\ error' = err
    /\ state' = EmptyDict
    /\ idx' = 0
    /\ result' = EmptyDict

\* Faulty variant: the state seeded with a record left from an earlier run.
initial_state_stale(path, retriever) ==
    [file_path |-> path,
     target_column |-> None,
     visualizations |->
        IF earlier = None THEN <<>> ELSE <<HeatmapRecord(<<"a">>)>>,
     current_plot_context |-> EmptyDict,
     insights |-> <<>>,
     retriever |-> retriever]

\* The state run() seeds the graph with.
initial_state(path, retriever) ==
    [file_path |-> path,
     target_column |-> None,
     visualizations |-> <<>>,
     current_plot_context |-> EmptyDict,
     insights |-> <<>>,
     retriever |-> retriever]

\* A graph node starts: it is recorded as entered.
Enter(node) == trace' = Append(trace, node)

\* Faulty variant: the engine notes a node's error and goes on to the next node.
OnStepError_continue(err) ==
    /\ error' = err
    /\ pc' = Edge(pc)
    /\ UNCHANGED <<state, idx, result>>

\* A node raises inside graph.invoke (line 313): neither the graph nor run()
\* catches it, so it leaves run().
OnStepError(err) == Raise(err)

(***************************************************************************)
(* run(), lines 287-301: the path check and the first load of the dataset. *)
(***************************************************************************)
run ==
    /\ pc = "idle"
    /\ \E p \in Paths :
        /\ file_path' = p
        /\ UNCHANGED <<indexExists, builds, buildInvoked, written, llmCalls,
                       appended, trace, log, earlier>>
        /\ IF ~isfile(p)
           THEN Raise("FileNotFoundError") /\ df' = <<>>
           ELSE IF ~CanLoad(p.content)
           THEN Raise("CustomException") /\ df' = <<>>
           ELSE /\ df' = p.content
                /\ pc' = "get_retriever"
                /\ error' = None
                /\ result' = EmptyDict
                /\ state' = EmptyDict
                /\ idx' = 0

(***************************************************************************)
(* run(), lines 303-311, with RAGPipeline.get_retriever and                *)
(* _build_vector_db: build the index if nothing is at its path, open it,   *)
(* seed the workflow state.                                                *)
(***************************************************************************)
get_retriever ==
    /\ pc = "get_retriever"
    /\ UNCHANGED <<file_path, df, written, llmCalls, appended, trace, log, earlier>>
    /\ \/ /\ NeedsBuild(indexExists)
          /\ buildInvoked' = TRUE
          /\ \/ \* the corpus cannot be loaded or split: nothing is created
                /\ Raise("Exception")
                /\ UNCHANGED <<indexExists, builds>>
             \/ \* embedding or persisting fails: the store's directory may
                \* or may not have been created by then
                /\ Raise("CustomException")
                /\ indexExists' \in BOOLEAN
                /\ UNCHANGED builds
             \/ \* the index is built and persisted
                /\ indexExists' = TRUE
                /\ builds' = builds + 1
                /\ \/ Raise("CustomException")
                   \/ /\ state' = initial_state(file_path, "retriever")
                      /\ pc' = EntryPoint
                      /\ UNCHANGED <<idx, result, error>>
       \/ /\ ~NeedsBuild(indexExists)
          /\ UNCHANGED <<indexExists, builds, buildInvoked>>
          /\ \/ Raise("CustomException")
             \/ /\ state' = initial_state(file_path, "retriever")
                /\ pc' = EntryPoint
                /\ UNCHANGED <<idx, result, error>>

(***************************************************************************)
(* Node profile_data: _profile_data_for_plotting, lines 140-160.           *)
(***************************************************************************)
profile_data ==
    /\ pc = "profile_data"
    /\ Enter(pc)
    /\ UNCHANGED <<indexExists, builds, buildInvoked, written>>
    /\ UNCHANGED <<file_path, df, llmCalls, appended, log, earlier>>
    /\ \/ OnStepError("CustomException")
       \/ /\ state' = Merge(state,
                            profile_data_for_plotting(state.file_path.content))
          /\ pc' = Edge(pc)
          /\ UNCHANGED <<idx, result, error>>

(***************************************************************************)
(* Node get_contextual_insights: _get_contextual_insights, lines 63-98.    *)
(***************************************************************************)
get_contextual_insights ==
    /\ pc = "get_contextual_insights"
    /\ Enter(pc)
    /\ UNCHANGED <<indexExists, builds, buildInvoked, written>>
    /\ UNCHANGED <<file_path, df, appended, log, earlier>>
    /\ IF state.retriever = None
       THEN /\ state' = Merge(state,
                              [insights |-> <<<<"Retriever not available.">>>>])
            /\ pc' = Edge(pc)
            /\ UNCHANGED <<idx, result, error, llmCalls>>
       ELSE \/ \* retriever.invoke raises
               /\ OnStepError("CustomException")
               /\ UNCHANGED llmCalls
            \/ \* llm.invoke raises
               /\ OnStepError("CustomException")
               /\ llmCalls' = llmCalls + 1
            \/ \E text \in LLMTexts :
               /\ state' = Merge(state, [insights |-> <<strip(text)>>])
               /\ llmCalls' = llmCalls + 1
               /\ pc' = Edge(pc)
               /\ UNCHANGED <<idx, result, error>>

\* One pass of a univariate plot step's loop over its column list, or the
\* step's return: `cols` the list, `onEmpty` the dict returned for an empty
\* list, `kind` which of the two steps it is.
PlotUnivariate(cols, onEmpty, kind) ==
    /\ UNCHANGED <<file_path, df, indexExists, builds, buildInvoked, earlier>>
    /\ IF idx = 0 THEN Enter(pc) ELSE UNCHANGED trace
    /\ IF cols = <<>>
       THEN \/ \* get_dataset raises
               /\ OnStepError("CustomException")
               /\ UNCHANGED <<written, llmCalls, appended, log>>
            \/ /\ state' = Merge(state, onEmpty)
               /\ pc' = Edge(pc)
               /\ UNCHANGED <<idx, result, error, written, llmCalls, appended, log>>
       ELSE IF idx < Len(cols)
       THEN LET col == cols[idx + 1] IN
            \/ \* get_dataset raises, before the loop
               /\ idx = 0
               /\ OnStepError("CustomException")
               /\ UNCHANGED <<written, llmCalls, appended, log>>
            \/ \* rendering or saving raises
               /\ OnStepError("Exception")
               /\ UNCHANGED <<written, llmCalls, appended, log>>
            \/ \* the file is saved, then llm.invoke raises
               /\ written' = written \cup {PlotRecord(kind, col, <<>>).path}
               /\ llmCalls' = llmCalls + 1
               /\ log' = log \o SubSeq(plot_events(PlotRecord(kind, col, <<>>).path), 1, 2)
               /\ OnStepError("Exception")
               /\ UNCHANGED appended
            \/ \E text \in LLMTexts :
               LET caption_state == generate_caption(PlotContext(kind, col), text).ret
                   caption == caption_state.visualizations[1].caption
               IN /\ written' = written \cup {PlotRecord(kind, col, caption).path}
                  /\ llmCalls' = llmCalls + generate_caption(PlotContext(kind, col), text).calls
                  /\ state' = [state EXCEPT !.visualizations =
                                  Append(@, PlotRecord(kind, col, caption))]
                  /\ appended' = appended + 1
                  /\ log' = log \o plot_events(PlotRecord(kind, col, caption).path)
                  /\ idx' = idx + 1
                  /\ UNCHANGED <<pc, result, error>>
       ELSE \* the loop is over: return {}
            /\ state' = Merge(state, EmptyDict)
            /\ pc' = Edge(pc)
            /\ idx' = 0
            /\ UNCHANGED <<result, error, written, llmCalls, appended, log>>

(***************************************************************************)
(* Node plot_univariate_numerical: lines 162-195.                          *)
(***************************************************************************)
plot_univariate_numerical ==
    /\ pc = "plot_univariate_numerical"
    /\ PlotUnivariate(state.numerical_cols,
                      [current_plot_context |-> EmptyDict], "numerical")

(***************************************************************************)
(* Node plot_univariate_categorical: lines 197-231.                        *)
(***************************************************************************)
plot_univariate_categorical ==
    /\ pc = "plot_univariate_categorical"
    /\ PlotUnivariate(state.categorical_cols, EmptyDict, "categorical")

(***************************************************************************)
(* Node plot_correlation_heatmap: lines 233-265.                           *)
(***************************************************************************)
plot_correlation_heatmap ==
    /\ pc = "plot_correlation_heatmap"
    /\ Enter(pc)
    /\ UNCHANGED <<file_path, df, indexExists, builds, buildInvoked, earlier>>
    /\ \/ \* get_dataset raises
          /\ OnStepError("CustomException")
          /\ UNCHANGED <<written, llmCalls, appended, log>>
       \/ /\ ~HeatmapApplies(state.numerical_cols)
          /\ state' = Merge(state, EmptyDict)
          /\ pc' = Edge(pc)
          /\ UNCHANGED <<idx, result, error, written, llmCalls, appended, log>>
       \/ /\ HeatmapApplies(state.numerical_cols)
          /\ \/ \* rendering or saving raises
                /\ OnStepError("Exception")
                /\ UNCHANGED <<written, llmCalls, appended, log>>
             \/ \* the file is saved, then llm.invoke raises
                /\ written' = written \cup {HeatmapRecord(<<>>).path}
                /\ llmCalls' = llmCalls + 1
                /\ log' = log \o SubSeq(plot_events(HeatmapRecord(<<>>).path), 1, 2)
                /\ OnStepError("Exception")
                /\ UNCHANGED appended
             \/ \E text \in LLMTexts :
                LET caption_state == generate_caption(HeatmapContext, text).ret
                    caption == caption_state.visualizations[1].caption
                IN /\ written' = written \cup {HeatmapRecord(caption).path}
                   /\ llmCalls' = llmCalls + generate_caption(HeatmapContext, text).calls
                   /\ state' = Merge([state EXCEPT !.visualizations =
                                         Append(@, HeatmapRecord(caption))],
                                     EmptyDict)
                   /\ appended' = appended + 1
                   /\ log' = log \o plot_events(HeatmapRecord(caption).path)
                   /\ pc' = Edge(pc)
                   /\ UNCHANGED <<idx, result, error>>

(***************************************************************************)
(* Node generate_caption_for_heatmap: _generate_caption run as the last    *)
(* node on the workflow state itself, lines 101-137 and 275-283.           *)
(***************************************************************************)
generate_caption_for_heatmap ==
    /\ pc = "generate_caption_for_heatmap"
    /\ Enter(pc)
    /\ UNCHANGED <<indexExists, builds, buildInvoked, written>>
    /\ UNCHANGED <<file_path, df, log, earlier>>
    /\ \E text \in LLMTexts :
        LET r == generate_caption(state.current_plot_context, text) IN
        /\ llmCalls' = llmCalls + r.calls
        /\ \/ \* llm.invoke raises
              /\ r.calls > 0
              /\ OnStepError("Exception")
              /\ UNCHANGED appended
           \/ /\ state' = Merge(state, r.ret)
              /\ appended' = appended +
                    (IF "visualizations" \in DOMAIN r.ret
                     THEN Len(r.ret.visualizations) ELSE 0)
              /\ pc' = Edge(pc)
              /\ UNCHANGED <<idx, result, error>>

(***************************************************************************)
(* run(), lines 313-324: the graph has ended; the result is assembled and  *)
(* returned, and the workflow state is dropped.                            *)
(***************************************************************************)
results ==
    /\ pc = "END"
    /\ result' = [basic_info |-> [rows |-> file_path.rows, columns |-> Len(df)],
                  visualizations |-> state.visualizations]
    /\ pc' = "returned"
    /\ state' = EmptyDict
    /\ UNCHANGED <<indexExists, builds, buildInvoked, written>>
    /\ UNCHANGED <<file_path, df, idx, error, llmCalls, appended, trace, log, earlier>>

(***************************************************************************)
(* The caller, src/app.py lines 121-130: it renders the result or reports  *)
(* the error, and the agent is free for the next run().  The per-run       *)
(* records of the model start again from here.                             *)
(***************************************************************************)
dashboard ==
    /\ pc \in {"returned", "raised"}
    /\ pc' = "idle"
    /\ result' = EmptyDict
    /\ error' = None
    /\ df' = <<>>
    /\ buildInvoked' = FALSE
    /\ written' = {}
    /\ llmCalls' = 0
    /\ appended' = 0
    /\ trace' = <<>>
    /\ log' = <<>>
    /\ earlier' = IF appended > 0 THEN pc ELSE earlier
    /\ UNCHANGED <<file_path, state, idx, indexExists, builds>>

Next ==
    \/ run
    \/ get_retriever
    \/ profile_data
    \/ get_contextual_insights
    \/ plot_univariate_numerical
    \/ plot_univariate_categorical
    \/ plot_correlation_heatmap
    \/ generate_caption_for_heatmap
    \/ results
    \/ dashboard

Spec == Init /\ [][Next]_vars

(***************************************************************************)
(* Properties                                                              *)
(***************************************************************************)

\* The order in which the workflow's steps are specified to run.
WorkflowOrder ==
    <<"profile_data", "get_contextual_insights", "plot_univariate_numerical",
      "plot_univariate_categorical", "plot_correlation_heatmap",
      "generate_caption_for_heatmap">>

IsPrefix(s, t) == Len(s) <= Len(t) /\ SubSeq(t, 1, Len(s)) = s

\* The run has a workflow state.
InWorkflow == pc \in Nodes \cup {"END"}

\* A workflow step of this run raised.
StepFailed == pc = "raised" /\ trace # <<>>

\* The paths of a list of visualization records.
PathsOf(vis) == [i \in DOMAIN vis |-> vis[i].path]

\* C1: the steps a run has entered are always an initial part of the fixed
\* order profile, insights, numerical, categorical, correlation, final
\* caption step, the step about to start is the next one of that order, and a
\* run that reaches the end of the graph or returns has entered all six, each
\* once.
C1_StepsOnceInOrder ==
    /\ IsPrefix(trace, WorkflowOrder)
    /\ pc \in Nodes =>
          IF idx = 0
          THEN IsPrefix(Append(trace, pc), WorkflowOrder)
          ELSE trace # <<>> /\ trace[Len(trace)] = pc
    /\ pc \in {"END", "returned"} => trace = WorkflowOrder

C1_Witness ==
    /\ pc = "returned"
    /\ trace = WorkflowOrder
    /\ Len(result.visualizations) = 3

\* C2: a run() on a path that is no file ends at once in FileNotFoundError,
\* with no result, no file written, the index neither built nor touched, no
\* workflow step entered and no model call made.
C2_MissingFileFailsFirst ==
    [][(pc = "idle" /\ ~file_path'.isfile) =>
          /\ pc' = "raised"
          /\ error' = "FileNotFoundError"
          /\ IsEmptyDict(result')
          /\ written' = {} /\ trace' = <<>> /\ llmCalls' = 0
          /\ ~buildInvoked'
          /\ UNCHANGED <<indexExists, builds, appended>>]_vars

C2_Witness ==
    /\ pc = "raised"
    /\ error = "FileNotFoundError"
    /\ ~file_path.isfile
    /\ builds = 1

\* What a run has left on disk: the plot files it saved, and the index
\* directory if this run built it.
RunEffects ==
    written \cup (IF buildInvoked /\ indexExists THEN {<<"chroma_db">>} ELSE {})

IsPlotFile(f) == f[1] \in {"hist_box", "countplot", "correlation_heatmap"}

\* After a failed step: nothing is returned, an error is raised, the steps
\* entered are an initial part of the order (none later than the failed one,
\* none twice), and the files saved are those of the records appended so far
\* and at most the one whose caption call failed.
FailedStepAborts ==
    /\ (error # None) <=> (pc = "raised")
    /\ StepFailed =>
          /\ IsEmptyDict(result)
          /\ IsEmptyDict(state)
          /\ IsPrefix(trace, WorkflowOrder)
          /\ \A f \in written : IsPlotFile(f)
          /\ Cardinality(written) \in {appended, appended + 1}

\* C3 as stated: after a failed step the run has aborted and everything it
\* has left on disk is a plot file.
C3_OnlyPlotFilesLeft ==
    /\ FailedStepAborts
    /\ StepFailed => \A f \in RunEffects : IsPlotFile(f)

\* C3 as amended: after a failed step the run has aborted, a raised run does
\* nothing more, no workflow step touches the index, and everything the run
\* has left on disk is a plot file or the index that get_retriever built
\* before the workflow started.
C3_PlotFilesAndIndexLeft ==
    /\ [](FailedStepAborts
            /\ (StepFailed =>
                  \A f \in RunEffects : IsPlotFile(f) \/ f = <<"chroma_db">>))
    /\ [][(pc = "raised" => pc' = "idle")
            /\ (pc \in Nodes =>
                  UNCHANGED <<indexExists, builds, buildInvoked>>)]_vars

C3_Witness ==
    /\ StepFailed
    /\ trace[Len(trace)] = "plot_univariate_categorical"
    /\ Cardinality(written) = 2
    /\ appended = 1
    /\ buildInvoked

\* C4: every record of the visualizations list, in the workflow state and in
\* the returned result, has a non-empty caption.
C4_CaptionNonEmpty ==
    /\ InWorkflow =>
          \A i \in DOMAIN state.visualizations :
              state.visualizations[i].description # <<>>
    /\ pc = "returned" =>
          \A i \in DOMAIN result.visualizations :
              result.visualizations[i].description # <<>>

\* C5: once profiled, the numerical, categorical and datetime lists are
\* pairwise disjoint, together they hold every column of the dataset, and an
\* object column that parses as timestamps is a datetime column and not a
\* categorical one.
C5_ListsPartitionColumns ==
    (InWorkflow /\ pc # "profile_data") =>
        LET n == Range(state.numerical_cols)
            c == Range(state.categorical_cols)
            d == Range(state.datetime_cols)
            content == state.file_path.content
        IN /\ n \cap c = {} /\ n \cap d = {} /\ c \cap d = {}
           /\ n \cup c \cup d = DOMAIN content
           /\ \A i \in DOMAIN content :
                 (content[i].dtype = "object" /\ content[i].as_datetime)
                    => (i \in d /\ i \notin c)

\* C6: a correlation step that completes appends exactly one record, the
\* heatmap's, saves its file and calls the model once when there are at least
\* 2 numerical columns; with fewer it appends nothing, saves nothing and calls
\* nothing; and with exactly 1 numerical column the list already holds that
\* column's record from the numerical step.
C6_CorrelationStep ==
    [][(pc = "plot_correlation_heatmap" /\ pc' = Edge(pc)) =>
          LET cols == state.numerical_cols
              vis == state.visualizations
              after == state'.visualizations
          IN /\ Len(cols) >= 2 =>
                   /\ Len(after) = Len(vis) + 1
                   /\ SubSeq(after, 1, Len(vis)) = vis
                   /\ after[Len(after)].path = <<"correlation_heatmap">>
                   /\ written' = written \cup {<<"correlation_heatmap">>}
                   /\ llmCalls' = llmCalls + 1
             /\ Len(cols) < 2 =>
                   /\ after = vis
                   /\ UNCHANGED <<written, llmCalls, appended>>
             /\ Len(cols) = 1 =>
                   \E i \in DOMAIN vis : vis[i].path = <<"hist_box", cols[1]>>]_vars

C6_Witness ==
    /\ pc = "generate_caption_for_heatmap"
    /\ Len(state.numerical_cols) = 2
    /\ Len(state.visualizations) = 3
    /\ state.visualizations[3].path = <<"correlation_heatmap">>

\* The columns a dataset's dtypes make numerical and categorical.
IsNumerical(col) == col.dtype \in {"int64", "float64"}
IsCategorical(col) == col.dtype \in {"object", "category"} /\ ~col.as_datetime

RECURSIVE ExpectedFrom(_, _, _)
ExpectedFrom(d, i, file) ==
    IF i > Len(d) THEN <<>>
    ELSE (IF \/ file = "hist_box" /\ IsNumerical(d[i])
             \/ file = "countplot" /\ IsCategorical(d[i])
          THEN <<(<<file, i>>)>> ELSE <<>>) \o ExpectedFrom(d, i + 1, file)

\* The files a completed run's records name, in order.
ExpectedPaths(d) ==
    ExpectedFrom(d, 1, "hist_box") \o ExpectedFrom(d, 1, "countplot")
        \o (IF Len(ExpectedFrom(d, 1, "hist_box")) >= 2
            THEN <<(<<"correlation_heatmap">>)>> ELSE <<>>)

\* C7: the result of a completed run holds one record per numerical column in
\* column order, then one per categorical column in column order, then the
\* correlation record if there are at least 2 numerical columns, and nothing
\* else.
C7_RecordsPerColumn ==
    pc = "returned" => PathsOf(result.visualizations) = ExpectedPaths(df)

C7_Witness ==
    /\ pc = "returned"
    /\ Len(df) = 3
    /\ df[1].dtype = "int64"
    /\ df[2].dtype = "object" /\ ~df[2].as_datetime
    /\ df[3].dtype = "object" /\ df[3].as_datetime
    /\ PathsOf(result.visualizations) = <<(<<"hist_box", 1>>), (<<"countplot", 2>>)>>

\* C8: the caption generator on an empty context returns an empty dict and
\* makes no model call, and the final node of the workflow, entered with no
\* plot pending, calls no model, appends no record, raises nothing and ends
\* the graph.
C8_EmptyContextNoOp ==
    /\ [](\A text \in LLMTexts :
            /\ IsEmptyDict(generate_caption(EmptyDict, text).ret)
            /\ generate_caption(EmptyDict, text).calls = 0)
    /\ [][(pc = "generate_caption_for_heatmap"
             /\ IsEmptyDict(state.current_plot_context)) =>
            /\ pc' = "END"
            /\ error' = None
            /\ state'.visualizations = state.visualizations
            /\ UNCHANGED <<llmCalls, appended, written>>]_vars

C8_Witness ==
    /\ pc = "END"
    /\ IsEmptyDict(state.current_plot_context)
    /\ appended = 2
    /\ llmCalls = 3

\* C9: get_retriever calls the build exactly when nothing is at the index
\* path; what is at the path stays there; a build completes only from a run
\* that found nothing there; and at most one build ever completes.
C9_BuildOnlyIfAbsent ==
    [][/\ pc = "get_retriever" => (buildInvoked' <=> ~indexExists)
       /\ indexExists => (indexExists' /\ builds' = builds)
       /\ builds' # builds =>
             (pc = "get_retriever" /\ ~indexExists /\ indexExists')
       /\ builds' <= 1]_vars

C9_Witness ==
    /\ pc = "returned"
    /\ builds = 1
    /\ ~buildInvoked
    /\ indexExists

\* C10: a run enters the graph with empty insights, visualizations and plot
\* context, and its visualizations list, and the list it returns, hold exactly
\* the records appended during that run.
C10_FreshStatePerRun ==
    /\ pc = EntryPoint =>
          /\ state.visualizations = <<>>
          /\ state.insights = <<>>
          /\ IsEmptyDict(state.current_plot_context)
    /\ InWorkflow => Len(state.visualizations) = appended
    /\ pc = "returned" => Len(result.visualizations) = appended

C10_Witness ==
    /\ pc = "returned"
    /\ earlier = "raised"
    /\ Len(result.visualizations) = 2

\* C11: run() on an existing file holding the empty dataset (0 rows, 0
\* columns) gets past its load of the dataset, the three column lists of such
\* a run are empty, and its result has no visualization record, rows = 0 and
\* columns = 0.
C11_EmptyDatasetCompletes ==
    /\ [][(/\ pc = "idle"
           /\ file_path'.isfile
           /\ file_path'.rows = 0
           /\ file_path'.content = <<>>) => pc' = "get_retriever"]_vars
    /\ []((file_path.isfile /\ file_path.rows = 0 /\ file_path.content = <<>>) =>
            /\ (InWorkflow /\ pc # "profile_data") =>
                  /\ state.numerical_cols = <<>>
                  /\ state.categorical_cols = <<>>
                  /\ state.datetime_cols = <<>>
            /\ pc = "returned" =>
                  /\ result.visualizations = <<>>
                  /\ result.basic_info.rows = 0
                  /\ result.basic_info.columns = 0)

\* How many of the first k entries of the log are of a kind.
RECURSIVE CountIn(_, _)
CountIn(kind, k) ==
    IF k = 0 THEN 0
    ELSE CountIn(kind, k - 1) + (IF log[k][1] = kind THEN 1 ELSE 0)

\* The plots rendered and not yet recorded after the first k entries.
Awaiting(k) == CountIn("render", k) - CountIn("append", k)

\* C12: at every point of a run at most one rendered plot has no record yet;
\* every rendered artifact is followed at once, and in this order, by its
\* context being set, its caption and its record, so before the next artifact
\* is rendered; unless the run has raised no plot is left waiting between the
\* passes of a plot step, when a plot step finishes and at the end; and the
\* workflow state's current_plot_context is empty throughout.  (The log is
\* that of the run's effects: one render per file saved, one append per
\* record.)
C12_OnePlotAwaitingCaption ==
    /\ \A k \in 0..Len(log) : Awaiting(k) \in {0, 1}
    /\ \A k \in DOMAIN log :
          log[k][1] = "render" =>
             /\ k + 1 <= Len(log) => log[k + 1] = <<"pending", log[k][2]>>
             /\ k + 2 <= Len(log) => log[k + 2] = <<"caption", log[k][2]>>
             /\ k + 3 <= Len(log) => log[k + 3] = <<"append", log[k][2]>>
    /\ pc # "raised" => Awaiting(Len(log)) = 0
    /\ InWorkflow => IsEmptyDict(state.current_plot_context)
    /\ CountIn("render", Len(log)) = Cardinality(written)
    /\ CountIn("append", Len(log)) = appended

C12_Witness ==
    /\ pc = "END"
    /\ Len(log) = 12
    /\ log[5] = <<"render", <<"hist_box", 2>>>>
    /\ log[9] = <<"render", <<"correlation_heatmap">>>>
    /\ IsEmptyDict(state.current_plot_context)

====
